---- MODULE Spec2Model ----
(***************************************************************************)
(* Genome similarity and population diversity of biosim4                   *)
(* (src/src/genome-compare.cpp).                                           *)
(*                                                                         *)
(* Floating-point values are modelled as exact fractions <<num, den>> in   *)
(* lowest terms with den > 0; the IEEE not-a-number produced by 0.0/0.0 is *)
(* the pair <<0, 0>>.  Rounding of float/double is not modelled.           *)
(***************************************************************************)
EXTENDS Integers, Sequences, FiniteSets, TLC

VARIABLES
    genome1,      \* first argument of genomeSimilarity / jaro_winkler_distance
    genome2,      \* second argument
    method,       \* p.genomeComparisonMethod
    ndebug,       \* TRUE iff the build defines NDEBUG (assert() compiled out)
    pc,           \* position of the caller of genomeSimilarity
    similarity,   \* value returned by genomeSimilarity(genome1, genome2)
    calls,        \* metrics genomeSimilarity(genome1, genome2) invoked, in order
    swapped,      \* value returned by genomeSimilarity(genome2, genome1)
    jw,           \* locals of one run of jaro_winkler_distance(genome1, genome2)
    peeps,        \* peeps[1..population].genome
    population,   \* p.population
    dv            \* locals of one run of geneticDiversity(), and the number of
                  \* calls of randomUint it has made (draws)

vars == <<genome1, genome2, method, ndebug, pc, similarity, calls, swapped,
          jw, peeps, population, dv>>

(***************************************************************************)
(* Bounds of the model                                                     *)
(***************************************************************************)
\* longest genome enumerated exhaustively over all three genes
MaxLen == 2
\* long genomes have maxNumGenesToCompare .. maxNumGenesToCompare+MaxExtra genes
MaxExtra == 1
\* largest population enumerated exhaustively
MaxPop == 3
\* longest genome enumerated exhaustively over two genes
MaxJWLen == 5
\* randomUint(lo, hi) draws every value when hi - lo < MaxDraws, else lo and hi
MaxDraws == 4

(***************************************************************************)
(* Program constants                                                       *)
(***************************************************************************)
maxNumGenesToCompare == 20
maxPrefixLength == 4
bytesPerElement == 4
SampleCap == 1000

(***************************************************************************)
(* Float arithmetic                                                        *)
(***************************************************************************)
RECURSIVE Gcd(_, _)
Gcd(a, b) == IF b = 0 THEN a ELSE Gcd(b, a % b)

Abs(x) == IF x < 0 THEN -x ELSE x

NaN == <<0, 0>>

IsNaN(x) == x[2] = 0

\* n/d as a float; 0/0 is NaN (the only division by zero the program performs)
Frac(n, d) ==
    IF d = 0 THEN NaN
    ELSE LET g == Gcd(Abs(n), Abs(d))
             s == IF d < 0 THEN -1 ELSE 1
         IN  <<(s * n) \div g, (s * d) \div g>>

FromInt(n) == <<n, 1>>

FAdd(x, y) ==
    IF IsNaN(x) \/ IsNaN(y) THEN NaN
    ELSE LET g == Gcd(x[2], y[2])
         IN  Frac(x[1] * (y[2] \div g) + y[1] * (x[2] \div g), x[2] * (y[2] \div g))

FNeg(x) == <<-x[1], x[2]>>

FSub(x, y) == FAdd(x, FNeg(y))

FMul(x, y) ==
    IF IsNaN(x) \/ IsNaN(y) THEN NaN
    ELSE LET g1 == Gcd(Abs(x[1]), y[2])
             g2 == Gcd(Abs(y[1]), x[2])
         IN  Frac((x[1] \div g1) * (y[1] \div g2), (x[2] \div g2) * (y[2] \div g1))

\* x / y for y not zero, and 0/0; the program never divides a non-zero by zero
FDiv(x, y) ==
    IF IsNaN(x) \/ IsNaN(y) THEN NaN
    ELSE IF y[1] = 0 THEN NaN
    ELSE FMul(x, Frac(y[2], y[1]))

\* operator< on floats: false whenever an operand is NaN
FLess(x, y) == ~IsNaN(x) /\ ~IsNaN(y) /\ x[1] * y[2] < y[1] * x[2]

\* std::min(a, b) == (b < a) ? b : a
FMin(a, b) == IF FLess(b, a) THEN b ELSE a

FZero == FromInt(0)

FOne == FromInt(1)

\* x lies in the closed interval [0, 1]
InUnit(x) == ~IsNaN(x) /\ ~FLess(x, FZero) /\ ~FLess(FOne, x)

IMin(a, b) == IF b < a THEN b ELSE a

IMax(a, b) == IF a < b THEN b ELSE a

(***************************************************************************)
(* Genes                                                                   *)
(***************************************************************************)
\* A gene has the five fields genesMatch reads.  Its definition is not part of
\* the sources modelled; the fields are taken to fill the 4-byte word
\* (sizeof(Gene) == 4): sourceType:1, sourceNum:7, sinkType:1, sinkNum:7 and a
\* signed 16-bit weight.
Gene(st, sn, kt, kn, w) ==
    [sourceType |-> st, sourceNum |-> sn, sinkType |-> kt, sinkNum |-> kn, weight |-> w]

GeneZero == Gene(0, 0, 0, 0, 0)

GeneOnes == Gene(1, 127, 1, 127, -1)

GeneScenario == Gene(1, 0, 1, 0, 100)

Genes == {GeneZero, GeneOnes, GeneScenario}

genesMatch(g1, g2) ==
    /\ g1.sinkNum = g2.sinkNum
    /\ g1.sourceNum = g2.sourceNum
    /\ g1.sinkType = g2.sinkType
    /\ g1.sourceType = g2.sourceType
    /\ g1.weight = g2.weight

\* number of differing bits of two w-bit unsigned fields
RECURSIVE XorPop(_, _, _)
XorPop(a, b, w) ==
    IF w = 0 THEN 0
    ELSE (IF a % 2 # b % 2 THEN 1 ELSE 0) + XorPop(a \div 2, b \div 2, w - 1)

\* the 16-bit pattern of the signed weight
WeightBits(w) == IF w < 0 THEN w + 65536 ELSE w

\* __builtin_popcount(*p1 ^ *p2) of the two genes' packed words
PopcountXor(g1, g2) ==
    XorPop(g1.sourceType, g2.sourceType, 1)
    + XorPop(g1.sourceNum, g2.sourceNum, 7)
    + XorPop(g1.sinkType, g2.sinkType, 1)
    + XorPop(g1.sinkNum, g2.sinkNum, 7)
    + XorPop(WeightBits(g1.weight), WeightBits(g2.weight), 16)

\* *p1 == *p2 of the two genes' packed words (the five fields fill the word)
WordsEqual(g1, g2) == g1 = g2

(***************************************************************************)
(* jaro_winkler_distance: s = genome1, a = genome2; indices are 0-based as *)
(* in the code, so s[j] of the code is s[j + 1] here.                      *)
(***************************************************************************)
\* sl, al: the lengths capped at maxNumGenesToCompare
CappedLen(g) == IMin(maxNumGenesToCompare, Len(g))

\* MatchRange with a seeded fault: the "- 1" is dropped
MatchRangeWide(sl, al) == IMax(0, IMax(sl, al) \div 2)

\* range = std::max(0, std::max(sl, al) / 2 - 1)
MatchRange(sl, al) == IMax(0, IMax(sl, al) \div 2 - 1)

\* inner loop of the matching phase: the first j in [j, l) with
\* genesMatch(a[i], s[j]) && !sflags[j], or -1 when the loop ends without a break
RECURSIVE FirstMatch(_, _, _, _, _)
FirstMatch(s, sflags, ai, j, l) ==
    IF j >= l THEN -1
    ELSE IF genesMatch(ai, s[j + 1]) /\ sflags[j + 1] = 0 THEN j
    ELSE FirstMatch(s, sflags, ai, j + 1, l)

\* inner loop of the transposition phase: the value of j when the loop ends
RECURSIVE NextFlagged(_, _, _)
NextFlagged(sflags, j, sl) ==
    IF j >= sl THEN sl
    ELSE IF sflags[j + 1] = 1 THEN j
    ELSE NextFlagged(sflags, j + 1, sl)

\* the Winkler prefix loop: matchingPrefix, counting from position i
RECURSIVE MatchingPrefix(_, _, _, _)
MatchingPrefix(s, a, i, prefixLength) ==
    IF i >= prefixLength THEN 0
    ELSE IF genesMatch(s[i + 1], a[i + 1]) THEN 1 + MatchingPrefix(s, a, i + 1, prefixLength)
    ELSE 0

\* lines 29-48: the locals after the declarations and the empty-genome return
JWInit(s, a) ==
    LET sl == CappedLen(s)
        al == CappedLen(a)
    IN  [phase  |-> IF sl = 0 \/ al = 0 THEN "done" ELSE "match",
         i      |-> 0,
         l      |-> 0,
         m      |-> 0,
         t      |-> 0,
         sflags |-> [k \in 1..sl |-> 0],
         aflags |-> [k \in 1..al |-> 0],
         result |-> FZero]

\* JWMatchIter with a seeded fault: the test !sflags[j] is dropped
JWMatchIterReclaim(st, s, a) ==
    LET sl    == CappedLen(s)
        al    == CappedLen(a)
        range == MatchRange(sl, al)
        cand  == {k \in IMax(st.i - range, 0)..(IMin(st.i + range + 1, sl) - 1) :
                    genesMatch(a[st.i + 1], s[k + 1])}
        j     == IF cand = {} THEN -1 ELSE CHOOSE k \in cand : \A q \in cand : k <= q
    IN  IF j >= 0
        THEN [st EXCEPT !.sflags = [@ EXCEPT ![j + 1] = 1],
                        !.aflags = [@ EXCEPT ![st.i + 1] = 1],
                        !.m = @ + 1,
                        !.i = @ + 1]
        ELSE [st EXCEPT !.i = @ + 1]

\* JWMatchIter with a seeded fault: the window ends at i + range instead of i + range + 1
JWMatchIterNarrow(st, s, a) ==
    LET sl    == CappedLen(s)
        al    == CappedLen(a)
        range == MatchRange(sl, al)
        j     == FirstMatch(s, st.sflags, a[st.i + 1],
                            IMax(st.i - range, 0), IMin(st.i + range, sl))
    IN  IF j >= 0
        THEN [st EXCEPT !.sflags = [@ EXCEPT ![j + 1] = 1],
                        !.aflags = [@ EXCEPT ![st.i + 1] = 1],
                        !.m = @ + 1,
                        !.i = @ + 1]
        ELSE [st EXCEPT !.i = @ + 1]

\* lines 51-60: one iteration of the outer matching loop
JWMatchIter(st, s, a) ==
    LET sl    == CappedLen(s)
        al    == CappedLen(a)
        range == MatchRange(sl, al)
        j     == FirstMatch(s, st.sflags, a[st.i + 1],
                            IMax(st.i - range, 0), IMin(st.i + range + 1, sl))
    IN  IF j >= 0
        THEN [st EXCEPT !.sflags = [@ EXCEPT ![j + 1] = 1],
                        !.aflags = [@ EXCEPT ![st.i + 1] = 1],
                        !.m = @ + 1,
                        !.i = @ + 1]
        ELSE [st EXCEPT !.i = @ + 1]

\* lines 62-66: the matching loop has ended
JWMatchExit(st) ==
    IF st.m = 0
    THEN [st EXCEPT !.phase = "done", !.result = FZero]
    ELSE [st EXCEPT !.phase = "transpose", !.i = 0, !.l = 0]

\* lines 67-78: one iteration of the outer transposition loop
JWTransposeIter(st, s, a) ==
    LET sl == CappedLen(s)
        j  == NextFlagged(st.sflags, st.l, sl)
    IN  IF st.aflags[st.i + 1] = 1
        THEN [st EXCEPT !.l = IF j < sl THEN j + 1 ELSE @,
                        !.t = IF j < sl /\ ~genesMatch(a[st.i + 1], s[j + 1])
                              THEN @ + 1 ELSE @,
                        !.i = @ + 1]
        ELSE [st EXCEPT !.i = @ + 1]

\* lines 79-100: t /= 2, the Jaro distance, the Winkler bonus and the return
JWFinish(st, s, a) ==
    LET sl   == CappedLen(s)
        al   == CappedLen(a)
        t    == st.t \div 2
        dw   == FDiv(FAdd(FAdd(Frac(st.m, sl), Frac(st.m, al)), Frac(st.m - t, st.m)),
                     FromInt(3))
        prefixLength   == IMin(maxPrefixLength, IMin(sl, al))
        matchingPrefix == MatchingPrefix(s, a, 0, prefixLength)
        winklerBonus   == FMul(FMul(Frac(1, 10), FromInt(matchingPrefix)), FSub(FOne, dw))
    IN  [st EXCEPT !.phase = "done", !.t = t, !.result = FMin(FOne, FAdd(dw, winklerBonus))]

\* one step of the function from the locals st
JWStep(st, s, a) ==
    IF st.phase = "match"
    THEN IF st.i < CappedLen(a) THEN JWMatchIter(st, s, a) ELSE JWMatchExit(st)
    ELSE IF st.i < CappedLen(a) THEN JWTransposeIter(st, s, a) ELSE JWFinish(st, s, a)

RECURSIVE JWRun(_, _, _)
JWRun(st, s, a) == IF st.phase = "done" THEN st ELSE JWRun(JWStep(st, s, a), s, a)

jaro_winkler_distance(g1, g2) == JWRun(JWInit(g1, g2), g1, g2).result

(***************************************************************************)
(* The exact metrics (both assert genome1.size() == genome2.size())        *)
(***************************************************************************)
\* bitCount after the loop of hammingDistanceBits, counting from index
RECURSIVE BitCount(_, _, _)
BitCount(g1, g2, index) ==
    IF index >= Len(g1) THEN 0
    ELSE PopcountXor(g1[index + 1], g2[index + 1]) + BitCount(g1, g2, index + 1)

\* byteCount after the loop of hammingDistanceBytes, counting from index
RECURSIVE ByteCount(_, _, _)
ByteCount(g1, g2, index) ==
    IF index >= Len(g1) THEN 0
    ELSE (IF WordsEqual(g1[index + 1], g2[index + 1]) THEN 1 ELSE 0)
         + ByteCount(g1, g2, index + 1)

\* hammingDistanceBits with a seeded fault: the difference is not scaled by 2
hammingDistanceBitsUnscaled(g1, g2) ==
    LET numElements == Len(g1)
        lengthBytes == numElements * bytesPerElement
        lengthBits  == lengthBytes * 8
        bitCount    == BitCount(g1, g2, 0)
    IN  FSub(FOne, FMin(FOne, Frac(bitCount, lengthBits)))

hammingDistanceBits(g1, g2) ==
    LET numElements == Len(g1)
        lengthBytes == numElements * bytesPerElement
        lengthBits  == lengthBytes * 8
        bitCount    == BitCount(g1, g2, 0)
    IN  FSub(FOne, FMin(FOne, Frac(2 * bitCount, lengthBits)))

hammingDistanceBytes(g1, g2) ==
    LET numElements == Len(g1)
        lengthBytes == numElements * bytesPerElement
        byteCount   == ByteCount(g1, g2, 0)
    IN  Frac(byteCount, lengthBytes)

(***************************************************************************)
(* genomeSimilarity: the outcome of one call, as                           *)
(*   aborted   - an assert() failed (only when NDEBUG is not defined); the *)
(*               assert is the one of the last metric in calls, or the     *)
(*               assert(false) of genomeSimilarity when calls is empty     *)
(*   undefined - the call read a genome outside its buffer                 *)
(*   value     - the float returned                                        *)
(*   calls     - the metrics invoked, in order                             *)
(***************************************************************************)
Returned(v, c) == [aborted |-> FALSE, undefined |-> FALSE, value |-> v, calls |-> c]

Aborted(c) == [aborted |-> TRUE, undefined |-> FALSE, value |-> FZero, calls |-> c]

Undefined(c) == [aborted |-> FALSE, undefined |-> TRUE, value |-> FZero, calls |-> c]

ExactMetrics == {"hammingDistanceBits", "hammingDistanceBytes"}

\* the value an exact metric computes once its assert has passed
ExactValue(name, g1, g2) ==
    IF name = "hammingDistanceBits"
    THEN hammingDistanceBits(g1, g2)
    ELSE hammingDistanceBytes(g1, g2)

\* lines 107 and 132: assert(genome1.size() == genome2.size())
LengthAssert(g1, g2) == Len(g1) = Len(g2)

\* one call of an exact metric: the assert fails on unequal lengths; without
\* the assert the loop runs genome1.size() times and reads past the end of a
\* shorter genome2
ExactCall(name, g1, g2, nd) ==
    IF ~nd /\ ~LengthAssert(g1, g2) THEN Aborted(<<name>>)
    ELSE IF Len(g2) < Len(g1) THEN Undefined(<<name>>)
    ELSE Returned(ExactValue(name, g1, g2), <<name>>)

\* MismatchBlend with a seeded fault: the ratio is taken of the capped lengths
MismatchBlendCapped(g1, g2) ==
    LET sim         == jaro_winkler_distance(g1, g2)
        len1        == CappedLen(g1)
        len2        == CappedLen(g2)
        lengthRatio == Frac(IMin(len1, len2), IMax(len1, len2))
    IN  FAdd(FMul(sim, Frac(8, 10)), FMul(lengthRatio, Frac(2, 10)))

\* lines 157-171: the genomes have different lengths
MismatchBlend(g1, g2) ==
    LET sim         == jaro_winkler_distance(g1, g2)
        len1        == Len(g1)
        len2        == Len(g2)
        lengthRatio == Frac(IMin(len1, len2), IMax(len1, len2))
    IN  FAdd(FMul(sim, Frac(8, 10)), FMul(lengthRatio, Frac(2, 10)))

\* MethodSwitch with a seeded fault: the default case has no assert
MethodSwitchNoAssert(g1, g2, meth, nd) ==
    CASE meth = 0 -> Returned(jaro_winkler_distance(g1, g2), <<"jaro_winkler_distance">>)
      [] meth = 1 -> ExactCall("hammingDistanceBits", g1, g2, nd)
      [] meth = 2 -> ExactCall("hammingDistanceBytes", g1, g2, nd)
      [] OTHER    -> Returned(FZero, <<>>)

\* genomeSimilarity with a seeded fault: the test of the lengths is missing
genomeSimilarityUnchecked(g1, g2, meth, nd) ==
    CASE meth = 0 -> Returned(jaro_winkler_distance(g1, g2), <<"jaro_winkler_distance">>)
      [] meth = 1 -> ExactCall("hammingDistanceBits", g1, g2, nd)
      [] meth = 2 -> ExactCall("hammingDistanceBytes", g1, g2, nd)
      [] OTHER    -> IF nd THEN Returned(FZero, <<>>) ELSE Aborted(<<>>)

\* lines 173-188: the switch on p.genomeComparisonMethod
MethodSwitch(g1, g2, meth, nd) ==
    CASE meth = 0 -> Returned(jaro_winkler_distance(g1, g2), <<"jaro_winkler_distance">>)
      [] meth = 1 -> ExactCall("hammingDistanceBits", g1, g2, nd)
      [] meth = 2 -> ExactCall("hammingDistanceBytes", g1, g2, nd)
      [] OTHER    -> IF nd THEN Returned(FZero, <<>>) ELSE Aborted(<<>>)

genomeSimilarity(g1, g2, meth, nd) ==
    IF Len(g1) # Len(g2)
    THEN Returned(MismatchBlend(g1, g2), <<"jaro_winkler_distance">>)
    ELSE MethodSwitch(g1, g2, meth, nd)

(***************************************************************************)
(* Inputs                                                                  *)
(***************************************************************************)
SeqsUpTo(S, n) == UNION {[1..k -> S] : k \in 0..n}

ShortGenomes == SeqsUpTo(Genes, MaxLen)

\* two genomes of exactly maxNumGenesToCompare genes, one the other shifted by one
LongBases ==
    {[k \in 1..maxNumGenesToCompare |-> IF k % 2 = 1 THEN GeneZero ELSE GeneOnes],
     [k \in 1..maxNumGenesToCompare |-> IF k % 2 = 1 THEN GeneOnes ELSE GeneZero]}

\* genomes that reach and exceed the comparison window
LongGenomes == {b \o tail : b \in LongBases, tail \in SeqsUpTo({GeneScenario}, MaxExtra)}

Genomes == ShortGenomes \cup LongGenomes

\* longer genomes over two genes, whose matching windows span several positions
JWGenomes == SeqsUpTo({GeneZero, GeneOnes}, MaxJWLen) \cup LongGenomes

\* the recognised methods 0, 1, 2 and an unrecognised one
Methods == 0..3

NoJW == JWInit(<<>>, <<>>)

\* the locals of geneticDiversity before the call
NoDv ==
    [phase |-> "entry", count |-> 0, numSamples |-> 0, similaritySum |-> FZero,
     index0 |-> 0, index1 |-> 0, draws |-> 0, diversity |-> FZero]

(***************************************************************************)
(* Spec: a caller computes genomeSimilarity(genome1, genome2) and then     *)
(* genomeSimilarity(genome2, genome1)                                      *)
(***************************************************************************)
\* the calls made: every configuration on Genomes; on JWGenomes the approximate
\* method on every pair and the exact methods on the pairs of equal length
Inputs ==
    (Genomes \X Genomes \X Methods \X BOOLEAN)
    \cup (JWGenomes \X JWGenomes \X {0} \X {FALSE})
    \cup {in \in JWGenomes \X JWGenomes \X {1, 2} \X {FALSE} : Len(in[1]) = Len(in[2])}

Init ==
    /\ \E in \in Inputs :
         /\ genome1 = in[1]
         /\ genome2 = in[2]
         /\ method = in[3]
         /\ ndebug = in[4]
    /\ pc = "ready"
    /\ similarity = FZero
    /\ calls = <<>>
    /\ swapped = FZero
    /\ jw = NoJW
    /\ peeps = <<>>
    /\ population = 0
    /\ dv = NoDv

CallReturns ==
    /\ pc = "ready"
    /\ \E r \in {genomeSimilarity(genome1, genome2, method, ndebug)} :
           /\ ~r.aborted /\ ~r.undefined
           /\ pc' = "returned"
           /\ similarity' = r.value
           /\ calls' = r.calls
    /\ UNCHANGED <<genome1, genome2, method, ndebug, swapped, jw, peeps, population, dv>>

CallAborts ==
    /\ pc = "ready"
    /\ \E r \in {genomeSimilarity(genome1, genome2, method, ndebug)} :
           /\ r.aborted
           /\ pc' = "aborted"
           /\ calls' = r.calls
    /\ UNCHANGED <<genome1, genome2, method, ndebug, similarity, swapped,
                   jw, peeps, population, dv>>

CallSwapped ==
    /\ pc = "returned"
    /\ \E r \in {genomeSimilarity(genome2, genome1, method, ndebug)} :
           /\ ~r.aborted /\ ~r.undefined
           /\ pc' = "compared"
           /\ swapped' = r.value
    /\ UNCHANGED <<genome1, genome2, method, ndebug, similarity, calls,
                   jw, peeps, population, dv>>

Next == CallReturns \/ CallAborts \/ CallSwapped

Spec == Init /\ [][Next]_vars

(***************************************************************************)
(* SpecJW: one run of jaro_winkler_distance(genome1, genome2), one step    *)
(* per iteration of its two outer loops                                    *)
(***************************************************************************)
InitJW ==
    /\ genome1 \in JWGenomes
    /\ genome2 \in JWGenomes
    /\ method = 0
    /\ ndebug = FALSE
    /\ pc = "jaro_winkler_distance"
    /\ similarity = FZero
    /\ calls = <<>>
    /\ swapped = FZero
    /\ jw = JWInit(genome1, genome2)
    /\ peeps = <<>>
    /\ population = 0
    /\ dv = NoDv

JWUnchanged ==
    UNCHANGED <<genome1, genome2, method, ndebug, pc, similarity, calls, swapped,
                peeps, population, dv>>

JWMatch ==
    /\ jw.phase = "match"
    /\ jw.i < CappedLen(genome2)
    /\ jw' = JWMatchIter(jw, genome1, genome2)
    /\ JWUnchanged

JWMatchDone ==
    /\ jw.phase = "match"
    /\ jw.i >= CappedLen(genome2)
    /\ jw' = JWMatchExit(jw)
    /\ JWUnchanged

JWTranspose ==
    /\ jw.phase = "transpose"
    /\ jw.i < CappedLen(genome2)
    /\ jw' = JWTransposeIter(jw, genome1, genome2)
    /\ JWUnchanged

JWReturn ==
    /\ jw.phase = "transpose"
    /\ jw.i >= CappedLen(genome2)
    /\ jw' = JWFinish(jw, genome1, genome2)
    /\ JWUnchanged

NextJW == JWMatch \/ JWMatchDone \/ JWTranspose \/ JWReturn

SpecJW == InitJW /\ [][NextJW]_vars

(***************************************************************************)
(* SpecDiv: one run of geneticDiversity() over peeps[1..population]        *)
(***************************************************************************)
DivGenomes == {<<>>, <<GeneZero>>, <<GeneZero, GeneOnes>>}

\* the populations enumerated, and uniform ones larger than the sample cap
Populations ==
    UNION {[1..n -> DivGenomes] : n \in 0..MaxPop}
    \cup {[k \in 1..(SampleCap + 1) |-> g] : g \in {<<GeneZero>>}}

\* the values randomUint(lo, hi) may return
randomUint(lo, hi) == IF hi - lo < MaxDraws THEN lo..hi ELSE {lo, hi}

InitDiv ==
    /\ genome1 = <<>>
    /\ genome2 = <<>>
    /\ method \in Methods
    /\ ndebug \in BOOLEAN
    /\ pc = "geneticDiversity"
    /\ similarity = FZero
    /\ calls = <<>>
    /\ swapped = FZero
    /\ jw = NoJW
    /\ peeps \in Populations
    /\ population = Len(peeps)
    /\ dv = NoDv

DivUnchanged ==
    UNCHANGED <<genome1, genome2, method, ndebug, pc, similarity, calls, swapped,
                jw, peeps, population>>

\* DivEnter with a seeded fault: the sample count is not capped
DivEnterUncapped ==
    /\ dv.phase = "entry"
    /\ dv' = IF population < 2
             THEN [dv EXCEPT !.phase = "returned", !.diversity = FZero]
             ELSE [dv EXCEPT !.phase = "loop",
                             !.count = population,
                             !.numSamples = 0,
                             !.similaritySum = FZero]
    /\ DivUnchanged

\* lines 196-203
DivEnter ==
    /\ dv.phase = "entry"
    /\ dv' = IF population < 2
             THEN [dv EXCEPT !.phase = "returned", !.diversity = FZero]
             ELSE [dv EXCEPT !.phase = "loop",
                             !.count = IMin(SampleCap, population),
                             !.numSamples = 0,
                             !.similaritySum = FZero]
    /\ DivUnchanged

\* lines 205-211: one iteration of the sampling loop; reading a genome outside
\* peeps[1..population] is undefined behaviour and ends the run as "undefined"
DivSample ==
    /\ dv.phase = "loop"
    /\ dv.count > 0
    /\ \E index0 \in randomUint(1, population - 1) :
         \E r \in {IF {index0, index0 + 1} \subseteq DOMAIN peeps
                   THEN genomeSimilarity(peeps[index0], peeps[index0 + 1], method, ndebug)
                   ELSE Undefined(<<>>)} :
           dv' = IF r.aborted \/ r.undefined
                 THEN [dv EXCEPT !.phase = IF r.aborted THEN "aborted" ELSE "undefined",
                                 !.index0 = index0, !.index1 = index0 + 1,
                                 !.draws = @ + 1]
                 ELSE [dv EXCEPT !.index0 = index0, !.index1 = index0 + 1,
                                 !.draws = @ + 1,
                                 !.similaritySum = FAdd(@, r.value),
                                 !.count = @ - 1,
                                 !.numSamples = @ + 1]
    /\ DivUnchanged

\* lines 212-213
DivReturn ==
    /\ dv.phase = "loop"
    /\ dv.count = 0
    /\ dv' = [dv EXCEPT !.phase = "returned",
                        !.diversity = FSub(FOne, FDiv(dv.similaritySum,
                                                      FromInt(dv.numSamples)))]
    /\ DivUnchanged

NextDiv == DivEnter \/ DivSample \/ DivReturn

SpecDiv == InitDiv /\ [][NextDiv]_vars

(***************************************************************************)
(* SpecExact: a caller that either goes through genomeSimilarity or calls  *)
(* an exact metric directly, on genomes of any two lengths                 *)
(***************************************************************************)
InitExact ==
    /\ genome1 \in Genomes
    /\ genome2 \in Genomes
    /\ method \in Methods
    /\ ndebug \in BOOLEAN
    /\ pc = "ready"
    /\ similarity = FZero
    /\ calls = <<>>
    /\ swapped = FZero
    /\ jw = NoJW
    /\ peeps = <<>>
    /\ population = 0
    /\ dv = NoDv

\* genome2 as the loop of an exact metric reads it when it is shorter than
\* genome1: the words past its end are whatever the memory holds
ReadPastEnd(g1, g2, word) ==
    g2 \o [k \in 1..(Len(g1) - Len(g2)) |-> word]

ExactUnchanged ==
    UNCHANGED <<genome1, genome2, method, ndebug, swapped, jw, peeps, population, dv>>

\* hammingDistanceBits(genome1, genome2) or hammingDistanceBytes(genome1,
\* genome2) called by the caller itself: the call returns, or its assert
\* fails, or it reads past the end of genome2 and then crashes or returns a
\* value computed from the words it found there
DirectExactCall ==
    /\ pc = "ready"
    /\ \E name \in ExactMetrics :
         \E r \in {ExactCall(name, genome1, genome2, ndebug)} :
           /\ calls' = r.calls
           /\ \/ /\ ~r.aborted /\ ~r.undefined
                 /\ pc' = "exact_returned"
                 /\ similarity' = r.value
              \/ /\ r.aborted
                 /\ pc' = "exact_aborted"
                 /\ similarity' = similarity
              \/ /\ r.undefined
                 /\ \/ /\ pc' = "exact_crashed"
                       /\ similarity' = similarity
                    \/ /\ pc' = "exact_undefined"
                       /\ \E word \in Genes :
                            similarity' = ExactValue(name, genome1,
                                              ReadPastEnd(genome1, genome2, word))
    /\ ExactUnchanged

NextExact == CallReturns \/ CallAborts \/ DirectExactCall

SpecExact == InitExact /\ [][NextExact]_vars

(***************************************************************************)
(* The approximate score as the specification describes it, for sequence A *)
(* and sequence B: claimed positions are sets of 0-based indices.          *)
(***************************************************************************)
Window(A) == SubSeq(A, 1, IMin(maxNumGenesToCompare, Len(A)))

MinOf(S) == CHOOSE x \in S : \A y \in S : x <= y

\* the claimed pairs <<i, j>> once the indices i, i+1, ... of A have been scanned
RECURSIVE ProcClaims(_, _, _, _, _)
ProcClaims(A, B, range, i, claimed) ==
    IF i >= Len(A) THEN claimed
    ELSE LET free == {j \in IMax(i - range, 0)..(IMin(i + range + 1, Len(B)) - 1) :
                        /\ genesMatch(A[i + 1], B[j + 1])
                        /\ \A q \in claimed : q[2] # j}
         IN  ProcClaims(A, B, range, i + 1,
                        IF free = {} THEN claimed ELSE claimed \cup {<<i, MinOf(free)>>})

\* the k-th smallest element of S, k in 1..Cardinality(S)
Kth(S, k) == CHOOSE x \in S : Cardinality({y \in S : y < x}) = k - 1

ProcScore(A, B) ==
    LET lenA    == Len(A)
        lenB    == Len(B)
        range   == IMax(0, IMax(lenA, lenB) \div 2 - 1)
        claimed == ProcClaims(A, B, range, 0, {})
        m       == Cardinality(claimed)
        inA     == {q[1] : q \in claimed}
        inB     == {q[2] : q \in claimed}
        counter == Cardinality({k \in 1..m :
                                  ~genesMatch(A[Kth(inA, k) + 1], B[Kth(inB, k) + 1])})
        t       == counter \div 2
        dw      == FDiv(FAdd(FAdd(Frac(m, lenA), Frac(m, lenB)), Frac(m - t, m)), FromInt(3))
        limit   == IMin(4, IMin(lenA, lenB))
        prefix  == Cardinality({n \in 1..limit : \A k \in 1..n : genesMatch(A[k], B[k])})
        score   == FAdd(dw, FMul(Frac(prefix, 10), FSub(FOne, dw)))
    IN  IF lenA = 0 \/ lenB = 0 THEN FZero
        ELSE IF m = 0 THEN FZero
        ELSE IF FLess(FOne, score) THEN FOne ELSE score

SpecProcedure(A, B) == ProcScore(Window(A), Window(B))

\* C10: when jaro_winkler_distance(genome1, genome2) returns, its value is the
\* value of the specified procedure run with A = genome1 and B = genome2 on
\* the first maxNumGenesToCompare genes of each.
C10_ApproxMatchesProcedure ==
    jw.phase = "done" => jw.result = SpecProcedure(genome1, genome2)

\* C10 witness: a finished run over a genome longer than the window, with
\* claimed pairs out of order (t > 0) and a score strictly inside (0, 1)
C10_Witness ==
    /\ jw.phase = "done"
    /\ Len(genome1) > maxNumGenesToCompare
    /\ jw.t > 0
    /\ jw.m < CappedLen(genome1)
    /\ FLess(FZero, jw.result) /\ FLess(jw.result, FOne)

(***************************************************************************)
(* Claims about genomeSimilarity (Spec)                                    *)
(***************************************************************************)
EqualLength == Len(genome1) = Len(genome2)

Recognised == method \in {0, 1, 2}

\* the call of genomeSimilarity(genome1, genome2) has returned a value
HasReturned == pc \in {"returned", "compared"}

\* C1: for a non-empty genome g and each method 0, 1, 2,
\* genomeSimilarity(g, g) returns exactly 1.0.
C1_Identity ==
    (HasReturned /\ Recognised /\ genome1 = genome2 /\ Len(genome1) > 0)
        => similarity = FOne

\* C2: genomeSimilarity(genome1, genome2) and genomeSimilarity(genome2, genome1)
\* return the same value, for every pair of genomes and every method (for two
\* empty genomes under method 2 that value is NaN in both directions).
C2_Symmetry == pc = "compared" => similarity = swapped

\* C2 witness: both calls made under the approximate method on genomes of the
\* full window that differ, where the matching claims every position out of order
C2_Witness ==
    /\ pc = "compared"
    /\ method = 0
    /\ genome1 # genome2
    /\ Len(genome1) = maxNumGenesToCompare
    /\ Len(genome2) = maxNumGenesToCompare
    /\ FLess(FZero, similarity) /\ FLess(similarity, FOne)

\* C3: for every pair of genomes and every method 0, 1, 2, the value returned
\* by genomeSimilarity lies in [0, 1].
C3_Range == (HasReturned /\ Recognised) => InUnit(similarity)

\* the number of positions whose genes are identical in both genomes
IdenticalCount == Cardinality({k \in 1..Len(genome1) : genome1[k] = genome2[k]})

\* C4: for genomes of equal non-zero length n, method 2 returns
\* identicalCount / n.
C4_WordMetric ==
    (HasReturned /\ method = 2 /\ EqualLength /\ Len(genome1) > 0)
        => similarity = Frac(IdenticalCount, Len(genome1))

\* C5: when the lengths differ, genomeSimilarity returns
\* 0.8 * approx + 0.2 * min(len1, len2) / max(len1, len2) with the uncapped
\* lengths, whatever the method; only the approximate metric runs and the call
\* does not abort.
C5_MismatchBlend ==
    (~EqualLength /\ pc # "ready")
        => /\ HasReturned
           /\ calls = <<"jaro_winkler_distance">>
           /\ similarity =
                FAdd(FMul(Frac(4, 5), jaro_winkler_distance(genome1, genome2)),
                     FMul(Frac(1, 5), Frac(IMin(Len(genome1), Len(genome2)),
                                           IMax(Len(genome1), Len(genome2)))))

\* C5 witness: an unrecognised method, and lengths 21 and 20 whose capped
\* lengths are equal
C5_Witness ==
    /\ HasReturned
    /\ ~Recognised
    /\ Len(genome1) = maxNumGenesToCompare + 1
    /\ Len(genome2) = maxNumGenesToCompare

\* the value and the single metric each recognised method dispatches to
DispatchedExactly ==
    /\ method = 0 => /\ calls = <<"jaro_winkler_distance">>
                     /\ similarity = jaro_winkler_distance(genome1, genome2)
    /\ method = 1 => /\ calls = <<"hammingDistanceBits">>
                     /\ similarity = hammingDistanceBits(genome1, genome2)
    /\ method = 2 => /\ calls = <<"hammingDistanceBytes">>
                     /\ similarity = hammingDistanceBytes(genome1, genome2)

WordBit(g, b) ==
    IF b = 0 THEN g.sourceType
    ELSE IF b < 8 THEN (g.sourceNum \div (2 ^ (b - 1))) % 2
    ELSE IF b = 8 THEN g.sinkType
    ELSE IF b < 16 THEN (g.sinkNum \div (2 ^ (b - 9))) % 2
    ELSE (WeightBits(g.weight) \div (2 ^ (b - 16))) % 2

\* the number of bit positions at which the two genomes differ
DifferingBits ==
    Cardinality({q \in (1..Len(genome1)) \X (0..31) :
                   WordBit(genome1[q[1]], q[2]) # WordBit(genome2[q[1]], q[2])})

\* C9: for genomes of equal non-zero length n, method 1 returns
\* 1 - min(1, 2 * differingBits / (32 * n)): 1.0 for identical genomes, 0.0
\* when at least half of the bits differ, and never less than 0.
C9_BitMetric ==
    (HasReturned /\ method = 1 /\ EqualLength /\ Len(genome1) > 0)
        => LET n == Len(genome1)
               d == DifferingBits
           IN  /\ similarity = IF 2 * d >= 32 * n THEN FZero
                               ELSE Frac(32 * n - 2 * d, 32 * n)
               /\ genome1 = genome2 => similarity = FOne
               /\ d = 32 * n => similarity = FZero
               /\ ~FLess(similarity, FZero)

\* C9 witness: fewer than half of the bits differ (5 of 64), so the score is
\* strictly between 0 and 1
C9_Witness ==
    /\ HasReturned /\ method = 1 /\ EqualLength
    /\ Len(genome1) = 2
    /\ DifferingBits = 5
    /\ similarity = Frac(54, 64)

(***************************************************************************)
(* Claims about geneticDiversity (SpecDiv)                                 *)
(***************************************************************************)
Uniform == \A k \in DOMAIN peeps : peeps[k] = peeps[1]

\* C7: a population of N >= 2 identical genomes has diversity 0.0 under each
\* method 0, 1, 2, whatever is drawn.
C7_UniformDiversity ==
    (dv.phase = "returned" /\ population >= 2 /\ Uniform /\ Recognised)
        => dv.diversity = FZero

SampleBudget == IMin(SampleCap, population)

\* what holds in every state of a run of geneticDiversity
C8_State ==
    /\ population < 2 =>
         /\ dv.phase \in {"entry", "returned"}
         /\ dv.draws = 0 /\ dv.numSamples = 0
         /\ dv.index0 = 0 /\ dv.index1 = 0
         /\ dv.phase = "returned" => dv.diversity = FZero
    /\ dv.phase = "aborted" => (~Recognised /\ ~ndebug)
    /\ dv.phase # "undefined"
    /\ dv.draws > 0 =>
         /\ dv.index0 \in 1..(population - 1)
         /\ dv.index1 = dv.index0 + 1
         /\ {dv.index0, dv.index1} \subseteq 1..population
    /\ dv.phase = "loop" =>
         /\ dv.draws = dv.numSamples
         /\ dv.count + dv.numSamples = SampleBudget
    /\ (dv.phase = "returned" /\ population >= 2) =>
         /\ dv.numSamples = SampleBudget
         /\ dv.draws = SampleBudget
         /\ dv.diversity = FSub(FOne, FDiv(dv.similaritySum, FromInt(SampleBudget)))

\* what every step of a run of geneticDiversity does
C8_Step ==
    /\ dv'.draws \in {dv.draws, dv.draws + 1}
    /\ dv'.draws = dv.draws => dv'.similaritySum = dv.similaritySum
    /\ dv'.draws = dv.draws + 1 =>
         /\ dv'.phase # "aborted" =>
              /\ dv'.numSamples = dv.numSamples + 1
              /\ dv'.similaritySum =
                   FAdd(dv.similaritySum,
                        genomeSimilarity(peeps[dv'.index0], peeps[dv'.index1],
                                         method, ndebug).value)

\* C8: with N < 2 geneticDiversity returns 0.0 without a draw or a read;
\* otherwise it returns after exactly min(1000, N) iterations, each with one
\* draw i in [1, N-1] and one comparison of the genomes at i and i+1, and the
\* result is 1 - (sum of the sampled similarities) / min(1000, N).
C8_SamplingProtocol == [](C8_State) /\ [][C8_Step]_vars

\* C8 witness: in a population larger than the cap the budget is SampleCap,
\* and the first iteration drew the largest index N - 1 and read the genomes
\* at N - 1 and N
C8_Witness ==
    /\ dv.phase = "loop"
    /\ population > SampleCap
    /\ dv.draws = 1
    /\ dv.count = SampleCap - 1
    /\ dv.index0 = population - 1
    /\ dv.index1 = population

(***************************************************************************)
(* Claims about the matching of jaro_winkler_distance (SpecJW)             *)
(***************************************************************************)
\* the number of positions a flag vector marks as claimed
Claimed(flags) == Cardinality({k \in DOMAIN flags : flags[k] = 1})

\* what holds in every state of a run of jaro_winkler_distance
C11_State ==
    LET sl == CappedLen(genome1)
        al == CappedLen(genome2)
    IN  /\ \A k \in DOMAIN jw.sflags : jw.sflags[k] \in {0, 1}
        /\ \A k \in DOMAIN jw.aflags : jw.aflags[k] \in {0, 1}
        /\ Claimed(jw.sflags) = jw.m
        /\ Claimed(jw.aflags) = jw.m
        /\ jw.m <= IMin(sl, al)
        /\ (jw.phase = "transpose" /\ jw.i < al /\ jw.aflags[jw.i + 1] = 1)
             => \E j \in jw.l..(sl - 1) : jw.sflags[j + 1] = 1

\* what every step of a run does to the claimed positions: an iteration of the
\* matching loop claims nothing, or claims one unclaimed position j of genome1
\* for the unclaimed position i of genome2, with matching genes no more than
\* range apart; no other step claims or releases a position
C11_Step ==
    LET i     == jw.i
        range == MatchRange(CappedLen(genome1), CappedLen(genome2))
    IN  \/ /\ jw'.m = jw.m
           /\ jw'.sflags = jw.sflags
           /\ jw'.aflags = jw.aflags
        \/ /\ jw.phase = "match"
           /\ jw'.m = jw.m + 1
           /\ jw.aflags[i + 1] = 0
           /\ jw'.aflags = [jw.aflags EXCEPT ![i + 1] = 1]
           /\ \E j \in 0..(CappedLen(genome1) - 1) :
                /\ jw.sflags[j + 1] = 0
                /\ jw'.sflags = [jw.sflags EXCEPT ![j + 1] = 1]
                /\ genesMatch(genome2[i + 1], genome1[j + 1])
                /\ Abs(i - j) <= range

\* C11: throughout the matching each position of either genome is claimed at
\* most once, every claimed pair matches and is at most range apart, both
\* genomes have m claimed positions, m <= min(lenA, lenB), and in the
\* transposition phase the cursor finds a claimed position of genome1 for
\* every claimed index of genome2 (j < sl on line 75 is never false).
C11_OneToOneMatching == [](C11_State) /\ [][C11_Step]_vars

\* C11 witness: the transposition phase has reached a claimed index of genome2
\* whose partner is at another position, with some positions left unclaimed
C11_Witness ==
    /\ jw.phase = "transpose"
    /\ jw.m >= 2
    /\ jw.m < IMin(CappedLen(genome1), CappedLen(genome2))
    /\ jw.i < CappedLen(genome2)
    /\ jw.aflags[jw.i + 1] = 1
    /\ jw.sflags[jw.i + 1] = 0

\* the exact metric a call went through, if any
CalledExact == calls # <<>> /\ calls[Len(calls)] \in ExactMetrics

\* C12: no call of an exact metric made by genomeSimilarity has genomes of
\* different length and none fails the equal-length assert: a dispatcher call
\* that reached an exact metric had equal lengths, a dispatcher call that
\* aborted did so at its own assert(false) with no metric called, and the
\* equal-length assert fails exactly in direct calls on genomes of different
\* length in a build with assertions.
C12_LengthMismatchUnreachable ==
    /\ (pc \in {"returned", "aborted"} /\ CalledExact) => EqualLength
    /\ pc = "returned" /\ EqualLength /\ method \in {1, 2} => CalledExact
    /\ pc = "aborted" => calls = <<>> /\ ~Recognised
    /\ pc = "exact_aborted" => ~EqualLength /\ ~ndebug
    /\ (pc \in {"exact_returned", "exact_crashed", "exact_undefined"} /\ ~ndebug)
          => EqualLength

\* C12 witness: with assertions on, genomeSimilarity has returned from an
\* exact metric on two different genomes of the same length beyond the cap
C12_Witness ==
    /\ pc = "returned"
    /\ ~ndebug
    /\ calls = <<"hammingDistanceBytes">>
    /\ Len(genome1) = maxNumGenesToCompare + 1
    /\ Len(genome2) = maxNumGenesToCompare + 1
    /\ genome1 # genome2

====
